---- MODULE Spec2Model ----
(***************************************************************************)
(* The diff-to-comment positioning code of src/src/code_review.py:         *)
(* the three hunk walkers (build_line_type_mapping_from_diff,              *)
(* build_line_mapping_from_diff, extract_commentable_lines_from_diff) and  *)
(* post_line_comments_direct.                                              *)
(*                                                                         *)
(* A Python str is a sequence of one-character strings; a diff text is the *)
(* sequence of its lines (the value of diff_text.splitlines()); a dict is  *)
(* a function whose DOMAIN is the set of its keys.                         *)
(***************************************************************************)
EXTENDS Integers, Sequences, FiniteSets, TLC

VARIABLES
    caller,             \* who applies the walkers: "walkers" or "post"
    diffs,              \* the FileDiff collection: <<[new_path, diff]>>
    pc,                 \* the code that is running
    fi,                 \* index of the file_diff the running walker is in
    li,                 \* index of the next line of that file's diff
    old_line,           \* old-line counter of the running builder
    new_line,           \* new-line counter of the running builder
    new_line_num,       \* new-line counter of extract_commentable_lines
    line_type_mapping,  \* dict (file_path, line) -> kind
    line_mapping,       \* dict (file_path, new_line) -> old line or None
    commentable_lines,  \* the set extract_commentable_lines is filling
    file_to_lines,      \* dict file_path -> set of commentable lines
    outcome,            \* per function: pending, running, returned, or
                        \* the exception it raised
    walked,             \* history: per walker, the lines it has consumed
    diff_refs,          \* what get_gitlab_mr_diff_refs answers
    candidates,         \* the comments as the caller passed them
    comments,           \* the same list, as post_line_comments_direct
                        \* has changed it so far
    idx,                \* enumerate(comments, 1)
    calls,              \* the gitlab_create_merge_request_thread calls
    log,                \* per processed comment: skipped, posted, failed
    fetched,            \* history: the calls of get_gitlab_mr_diff_refs
    run,                \* which call of post_line_comments_direct on the
                        \* same list of comments this is: 1 or 2
    first,              \* history: the calls the first of two runs made
    adjusted,           \* the list adjust_comments_to_nearest_visible builds
    passes,             \* the review passes the server is handling: per
                        \* pass its stage, its diffs, comments and
                        \* identifiers, and the calls it has made
    turn                \* the pass that is in post_line_comments_direct,
                        \* 0 when none is

walkvars == <<fi, li, old_line, new_line, new_line_num, line_type_mapping,
              line_mapping, commentable_lines, file_to_lines, walked>>

postvars == <<diff_refs, candidates, comments, idx, calls, log, fetched,
              run, first, adjusted, passes, turn>>

vars == <<caller, diffs, pc, outcome, walkvars, postvars>>

----------------------------------------------------------------------------
(* Bounds of the model *)

\* longest diff text, in lines, of the enumerated inputs
MaxLines == 3

----------------------------------------------------------------------------
(* Python values *)

\* Python's None where an int is expected (a line counter, a dict value)
None == -1

\* Python's None where a str is expected (a kind)
NoneStr == "None"

EmptyDict == [k \in {} |-> None]

\* d[k] = v
Put(d, k, v) == [x \in (DOMAIN d) \cup {k} |-> IF x = k THEN v ELSE d[x]]

\* line.startswith(prefix)
StartsWith(line, prefix) ==
    /\ Len(line) >= Len(prefix)
    /\ SubSeq(line, 1, Len(prefix)) = prefix

\* s.split(sep) for a one-character separator: empty pieces are kept
RECURSIVE Split(_, _)
Split(s, sep) ==
    IF \A i \in 1..Len(s) : s[i] # sep
    THEN <<s>>
    ELSE LET i == CHOOSE i \in 1..Len(s) :
                     s[i] = sep /\ \A j \in 1..(i - 1) : s[j] # sep
         IN  <<SubSeq(s, 1, i - 1)>> \o Split(SubSeq(s, i + 1, Len(s)), sep)

Digits == <<"0", "1", "2", "3", "4", "5", "6", "7", "8", "9">>

IsDigit(c) == \E d \in 1..10 : Digits[d] = c

DigitValue(c) == (CHOOSE d \in 1..10 : Digits[d] = c) - 1

RECURSIVE DecimalValue(_)
DecimalValue(s) ==
    IF s = <<>> THEN 0
    ELSE 10 * DecimalValue(SubSeq(s, 1, Len(s) - 1)) + DigitValue(s[Len(s)])

\* int(s): an optional sign followed by decimal digits, ValueError otherwise
\* (surrounding white space and underscores, which int() also accepts, do
\* not occur in the enumerated headers)
ParseInt(s) ==
    LET signed == s # <<>> /\ s[1] \in {"+", "-"}
        body   == IF signed THEN Tail(s) ELSE s
    IN  IF body = <<>> \/ \E i \in 1..Len(body) : ~IsDigit(body[i])
        THEN [err |-> "ValueError", val |-> None]
        ELSE [err |-> "",
              val |-> IF signed /\ s[1] = "-"
                      THEN 0 - DecimalValue(body) ELSE DecimalValue(body)]

\* s[1:]
PyTail(s) == IF s = <<>> THEN <<>> ELSE Tail(s)

\* int(range.split(',')[0][1:])
RangeStart(range) == ParseInt(PyTail(Split(range, ",")[1]))

----------------------------------------------------------------------------
(* The hunk header, as the two index builders read it *)

ParseHeader(line) ==
    LET parts == Split(line, " ")
    IN  IF Len(parts) < 3
        THEN [err |-> "IndexError", old_start |-> None, new_start |-> None]
        ELSE LET o == RangeStart(parts[2])
                 n == RangeStart(parts[3])
             IN  IF o.err # ""
                 THEN [err |-> o.err, old_start |-> None, new_start |-> None]
                 ELSE IF n.err # ""
                 THEN [err |-> n.err, old_start |-> None, new_start |-> None]
                 ELSE [err |-> "", old_start |-> o.val, new_start |-> n.val]

(* The hunk header, as extract_commentable_lines_from_diff reads it *)

ParseHeaderNew(line) ==
    LET parts == Split(line, " ")
    IN  IF Len(parts) < 3
        THEN [err |-> "IndexError", new_start |-> None]
        ELSE LET n == RangeStart(parts[3])
             IN  IF n.err # ""
                 THEN [err |-> n.err, new_start |-> None]
                 ELSE [err |-> "", new_start |-> n.val]

\* the prefixes the walkers test
AtAt     == <<"@", "@">>
Plus     == <<"+">>
Plus3    == <<"+", "+", "+">>
Minus    == <<"-">>
Minus3   == <<"-", "-", "-">>

\* line.startswith('@@')
IsHeader(line) == StartsWith(line, AtAt)

\* line.startswith('+') and not line.startswith('+++')
IsAdded(line) == StartsWith(line, Plus) /\ ~StartsWith(line, Plus3)

\* line.startswith('-') and not line.startswith('---')
IsRemoved(line) == StartsWith(line, Minus) /\ ~StartsWith(line, Minus3)

\* not line.startswith('-') and not line.startswith('---')
VisIsContext(line) == ~StartsWith(line, Minus) /\ ~StartsWith(line, Minus3)

----------------------------------------------------------------------------
(* One iteration of the line loop of each walker.  w holds the walker's   *)
(* locals; the result holds them after the iteration, err the exception   *)
(* the iteration raised ("" for none), and branch the branch it took.     *)
(* counter += 1 on a counter that is still None raises TypeError, after   *)
(* the statements before it have run.                                     *)

\* faulty variant: the two starts crossed over
BuilderHeaderSwapped(w, line) ==
    LET h == ParseHeader(line)
    IN  IF h.err # ""
        THEN [w EXCEPT !.err = h.err, !.branch = "header"]
        ELSE [w EXCEPT !.old_line = h.new_start, !.new_line = h.old_start,
                       !.branch = "header"]

\* the '@@' branch of both index builders
BuilderHeader(w, line) ==
    LET h == ParseHeader(line)
    IN  IF h.err # ""
        THEN [w EXCEPT !.err = h.err, !.branch = "header"]
        ELSE [w EXCEPT !.old_line = h.old_start, !.new_line = h.new_start,
                       !.branch = "header"]

\* mapping[(file_path, new_line)] = "new"; new_line += 1
TypeAdded(w, file_path) ==
    LET m == Put(w.mapping, <<file_path, w.new_line>>, "new")
    IN  IF w.new_line = None
        THEN [w EXCEPT !.mapping = m, !.err = "TypeError", !.branch = "added"]
        ELSE [w EXCEPT !.mapping = m, !.new_line = @ + 1, !.branch = "added"]

\* faulty variant: a removed line advances the new-line counter as well
TypeRemovedBothCounters(w, file_path) ==
    LET m == Put(w.mapping, <<file_path, w.old_line>>, "deleted")
    IN  IF w.old_line = None
        THEN [w EXCEPT !.mapping = m, !.err = "TypeError", !.branch = "removed"]
        ELSE [w EXCEPT !.mapping = m, !.old_line = @ + 1, !.new_line = @ + 1,
                       !.branch = "removed"]

\* mapping[(file_path, old_line)] = "deleted"; old_line += 1
TypeRemoved(w, file_path) ==
    LET m == Put(w.mapping, <<file_path, w.old_line>>, "deleted")
    IN  IF w.old_line = None
        THEN [w EXCEPT !.mapping = m, !.err = "TypeError", !.branch = "removed"]
        ELSE [w EXCEPT !.mapping = m, !.old_line = @ + 1, !.branch = "removed"]

\* mapping[(file_path, new_line)] = "unchanged"; old_line += 1; new_line += 1
TypeContext(w, file_path) ==
    LET m == Put(w.mapping, <<file_path, w.new_line>>, "unchanged")
    IN  IF w.old_line = None
        THEN [w EXCEPT !.mapping = m, !.err = "TypeError", !.branch = "context"]
        ELSE IF w.new_line = None
        THEN [w EXCEPT !.mapping = m, !.old_line = @ + 1,
                       !.err = "TypeError", !.branch = "context"]
        ELSE [w EXCEPT !.mapping = m, !.old_line = @ + 1, !.new_line = @ + 1,
                       !.branch = "context"]

\* build_line_type_mapping_from_diff: the body of `for line in ...`
TypeLine(w, file_path, line) ==
    IF IsHeader(line) THEN BuilderHeader(w, line)
    ELSE IF IsAdded(line) THEN TypeAdded(w, file_path)
    ELSE IF IsRemoved(line) THEN TypeRemoved(w, file_path)
    ELSE TypeContext(w, file_path)

\* mapping[(file_path, new_line)] = None; new_line += 1
MapAdded(w, file_path) ==
    LET m == Put(w.mapping, <<file_path, w.new_line>>, None)
    IN  IF w.new_line = None
        THEN [w EXCEPT !.mapping = m, !.err = "TypeError", !.branch = "added"]
        ELSE [w EXCEPT !.mapping = m, !.new_line = @ + 1, !.branch = "added"]

\* old_line += 1
MapRemoved(w, file_path) ==
    IF w.old_line = None
    THEN [w EXCEPT !.err = "TypeError", !.branch = "removed"]
    ELSE [w EXCEPT !.old_line = @ + 1, !.branch = "removed"]

\* faulty variant: the new line number stored as the old one
MapContextNewLine(w, file_path) ==
    LET m == Put(w.mapping, <<file_path, w.new_line>>, w.new_line)
    IN  IF w.old_line = None
        THEN [w EXCEPT !.mapping = m, !.err = "TypeError", !.branch = "context"]
        ELSE [w EXCEPT !.mapping = m, !.old_line = @ + 1, !.new_line = @ + 1,
                       !.branch = "context"]

\* mapping[(file_path, new_line)] = old_line; old_line += 1; new_line += 1
MapContext(w, file_path) ==
    LET m == Put(w.mapping, <<file_path, w.new_line>>, w.old_line)
    IN  IF w.old_line = None
        THEN [w EXCEPT !.mapping = m, !.err = "TypeError", !.branch = "context"]
        ELSE IF w.new_line = None
        THEN [w EXCEPT !.mapping = m, !.old_line = @ + 1,
                       !.err = "TypeError", !.branch = "context"]
        ELSE [w EXCEPT !.mapping = m, !.old_line = @ + 1, !.new_line = @ + 1,
                       !.branch = "context"]

\* build_line_mapping_from_diff: the body of `for line in ...`
MapLine(w, file_path, line) ==
    IF IsHeader(line) THEN BuilderHeader(w, line)
    ELSE IF IsAdded(line) THEN MapAdded(w, file_path)
    ELSE IF IsRemoved(line) THEN MapRemoved(w, file_path)
    ELSE MapContext(w, file_path)

\* In the records of extract_commentable_lines_from_diff, mapping is the set
\* commentable_lines, new_line is new_line_num, and old_line stays None:
\* the function keeps no old-line counter.

\* the '@@' branch of extract_commentable_lines_from_diff
VisHeader(w, line) ==
    LET h == ParseHeaderNew(line)
    IN  IF h.err # ""
        THEN [w EXCEPT !.err = h.err, !.branch = "header"]
        ELSE [w EXCEPT !.new_line = h.new_start, !.branch = "header"]

\* commentable_lines.add(new_line_num); new_line_num += 1
VisAdded(w) ==
    LET m == w.mapping \cup {w.new_line}
    IN  IF w.new_line = None
        THEN [w EXCEPT !.mapping = m, !.err = "TypeError", !.branch = "added"]
        ELSE [w EXCEPT !.mapping = m, !.new_line = @ + 1, !.branch = "added"]

\* faulty variant: the counter advanced before the line is added
VisContextOffByOne(w) ==
    IF w.new_line # None
    THEN [w EXCEPT !.mapping = @ \cup {w.new_line + 1}, !.new_line = @ + 1,
                   !.branch = "context"]
    ELSE [w EXCEPT !.branch = "context"]

\* if new_line_num is not None: add it; new_line_num += 1
VisContext(w) ==
    IF w.new_line # None
    THEN [w EXCEPT !.mapping = @ \cup {w.new_line}, !.new_line = @ + 1,
                   !.branch = "context"]
    ELSE [w EXCEPT !.branch = "context"]

\* extract_commentable_lines_from_diff: the body of `for line in ...`
VisLine(w, line) ==
    IF IsHeader(line) THEN VisHeader(w, line)
    ELSE IF IsAdded(line) THEN VisAdded(w)
    ELSE IF VisIsContext(line) THEN VisContext(w)
    ELSE [w EXCEPT !.branch = "skipped"]

----------------------------------------------------------------------------
(* The inputs: diff lines, diff texts and FileDiff collections *)

\* "@@ -1,3 +1,4 @@"
HunkA == <<"@", "@", " ", "-", "1", ",", "3", " ", "+", "1", ",", "4", " ", "@", "@">>

\* "@@ -2,2 +5,2 @@"
HunkB == <<"@", "@", " ", "-", "2", ",", "2", " ", "+", "5", ",", "2", " ", "@", "@">>

\* "@@ -4 +6 @@": the counts left out
HunkNoCount == <<"@", "@", " ", "-", "4", " ", "+", "6", " ", "@", "@">>

\* "@@ -1,3": a header cut short
HunkCut == <<"@", "@", " ", "-", "1", ",", "3">>

\* "@@ -x,1 +1,1 @@": a header whose old start is no number
HunkNaN == <<"@", "@", " ", "-", "x", ",", "1", " ", "+", "1", ",", "1", " ", "@", "@">>

AddedLine   == <<"+", "a">>
RemovedLine == <<"-", "d">>
ContextLine == <<" ", "c">>
BlankLine   == <<>>
NewFileLine == <<"+", "+", "+", " ", "b">>
OldFileLine == <<"-", "-", "-", " ", "a">>

LinePool == {HunkA, HunkB, HunkNoCount, AddedLine, RemovedLine, ContextLine,
             NewFileLine, OldFileLine}

RECURSIVE TextsOfLength(_)
TextsOfLength(n) ==
    IF n = 0 THEN {<<>>}
    ELSE {Append(t, l) : t \in TextsOfLength(n - 1), l \in LinePool}

\* Scenario A: "@@ -1,3 +1,4 @@\n context1\n+added1\n context2\n context3"
ScenarioA == <<HunkA, ContextLine, AddedLine, ContextLine, ContextLine>>

\* a line replaced: "@@ -1,3 +1,4 @@\n-d\n+a"
Replaced == <<HunkA, RemovedLine, AddedLine>>

\* diffs with a header that does not parse, and diffs with blank lines
OddTexts == {<<HunkCut>>, <<HunkNaN, AddedLine>>,
             <<HunkA, AddedLine, HunkCut, AddedLine>>,
             <<BlankLine>>, <<HunkB, BlankLine, ContextLine>>}

\* an added line and a removed line that bear the same number, the one
\* in the new file and the other in the old: "@@ -1,3 +1,4 @@\n+a\n-d"
AddedThenRemoved == <<HunkA, AddedLine, RemovedLine>>

\* two hunks that cover the same new line
Overlapping == <<HunkA, ContextLine, HunkA, AddedLine>>

DiffTexts == UNION {TextsOfLength(n) : n \in 0..MaxLines}
                 \cup OddTexts \cup {ScenarioA, Overlapping}

\* the diff of a second file of the merge request
OtherDiff == <<HunkB, AddedLine>>

FileDiff(path, text) == [new_path |-> path, diff |-> text]

\* merge requests of no file, of one file, and of two files
DiffInputs ==
    {<<>>}
    \cup {<<FileDiff("a.py", t)>> : t \in DiffTexts}
    \cup {<<FileDiff("a.py", t), FileDiff("b.py", OtherDiff)>> : t \in DiffTexts}

----------------------------------------------------------------------------
(* The walkers as a state machine, one loop iteration per step.            *)
(* Under Spec each walker is applied to the same collection, in the order  *)
(* of the source file, whatever the one before it did; a walker that       *)
(* raises ends with the exception as its outcome, its locals left as they  *)
(* were at the raise.  Under SpecPost the two index builders run as the    *)
(* calls post_line_comments_direct makes, and an exception of theirs       *)
(* leaves post_line_comments_direct.                                       *)

Functions == {"type", "map", "vis", "post", "adjust"}

NoPost ==
    /\ diff_refs = [base_sha |-> NoneStr, start_sha |-> NoneStr,
                    head_sha |-> NoneStr]
    /\ candidates = <<>>
    /\ comments = <<>>
    /\ idx = 0
    /\ calls = <<>>
    /\ log = <<>>
    /\ fetched = 0
    /\ run = 1
    /\ first = <<>>
    /\ adjusted = <<>>
    /\ passes = <<>>
    /\ turn = 0

NoWalk ==
    /\ fi = 0
    /\ li = 0
    /\ old_line = None
    /\ new_line = None
    /\ new_line_num = None
    /\ line_type_mapping = EmptyDict
    /\ line_mapping = EmptyDict
    /\ commentable_lines = {}
    /\ file_to_lines = EmptyDict
    /\ walked = [w \in {"type", "map", "vis"} |-> <<>>]

Init ==
    /\ caller = "walkers"
    /\ diffs \in DiffInputs
    /\ pc = "type"
    /\ outcome = [f \in Functions |-> IF f = "type" THEN "running" ELSE "pending"]
    /\ NoWalk
    /\ NoPost

\* the line loop of the current file is over (or no file was entered yet)
AtFileEnd == IF fi = 0 THEN TRUE ELSE li > Len(diffs[fi].diff)

\* the history entry of one consumed line
Consumed(before, after, line) ==
    [file |-> fi, path |-> diffs[fi].new_path, text |-> line,
     branch |-> after.branch, err |-> after.err,
     old |-> before.old_line, new |-> before.new_line,
     old_after |-> after.old_line, new_after |-> after.new_line,
     wrote |-> after.mapping # before.mapping]

\* a function starts: the cursor and the locals of a walker
Enter(next) ==
    /\ pc' = next
    /\ fi' = 0
    /\ li' = 0
    /\ old_line' = None
    /\ new_line' = None

\* what follows a builder that ended with `result` (returned or an
\* exception), `next` being the code after it
AfterBuilder(this, result, next) ==
    IF caller = "post" /\ result # "returned"
    THEN /\ outcome' = [outcome EXCEPT ![this] = result, !.post = result]
         /\ pc' = "done"
         /\ UNCHANGED <<fi, li, old_line, new_line>>
    ELSE /\ outcome' = [outcome EXCEPT ![this] = result,
                            ![IF next = "loop" THEN "post" ELSE next] = "running"]
         /\ Enter(next)

\* for file_diff in diff_json: file_path, diff_text, old_line = new_line = None
TypeBeginFile ==
    /\ pc = "type" /\ AtFileEnd /\ fi < Len(diffs)
    /\ fi' = fi + 1
    /\ li' = 1
    /\ old_line' = None
    /\ new_line' = None
    /\ UNCHANGED <<caller, diffs, pc, outcome, new_line_num, line_type_mapping,
                   line_mapping, commentable_lines, file_to_lines, walked,
                   postvars>>

TypeStep ==
    /\ pc = "type" /\ fi >= 1 /\ li <= Len(diffs[fi].diff)
    /\ LET line   == diffs[fi].diff[li]
           before == [old_line |-> old_line, new_line |-> new_line,
                      mapping |-> line_type_mapping, err |-> "", branch |-> ""]
           after  == TypeLine(before, diffs[fi].new_path, line)
       IN  /\ line_type_mapping' = after.mapping
           /\ walked' = [walked EXCEPT !.type = Append(@, Consumed(before, after, line))]
           /\ IF after.err # ""
              THEN AfterBuilder("type", after.err, "map")
              ELSE /\ old_line' = after.old_line
                   /\ new_line' = after.new_line
                   /\ li' = li + 1
                   /\ UNCHANGED <<pc, fi, outcome>>
    /\ UNCHANGED <<caller, diffs, new_line_num, line_mapping, commentable_lines,
                   file_to_lines, postvars>>

\* return mapping
TypeReturn ==
    /\ pc = "type" /\ AtFileEnd /\ fi = Len(diffs)
    /\ AfterBuilder("type", "returned", "map")
    /\ UNCHANGED <<caller, diffs, new_line_num, line_type_mapping, line_mapping,
                   commentable_lines, file_to_lines, walked, postvars>>

MapBeginFile ==
    /\ pc = "map" /\ AtFileEnd /\ fi < Len(diffs)
    /\ fi' = fi + 1
    /\ li' = 1
    /\ old_line' = None
    /\ new_line' = None
    /\ UNCHANGED <<caller, diffs, pc, outcome, new_line_num, line_type_mapping,
                   line_mapping, commentable_lines, file_to_lines, walked,
                   postvars>>

\* what follows build_line_mapping_from_diff: the next walker, or the
\* comment loop of post_line_comments_direct
AfterMap == IF caller = "post" THEN "loop" ELSE "vis"

MapStep ==
    /\ pc = "map" /\ fi >= 1 /\ li <= Len(diffs[fi].diff)
    /\ LET line   == diffs[fi].diff[li]
           before == [old_line |-> old_line, new_line |-> new_line,
                      mapping |-> line_mapping, err |-> "", branch |-> ""]
           after  == MapLine(before, diffs[fi].new_path, line)
       IN  /\ line_mapping' = after.mapping
           /\ walked' = [walked EXCEPT !.map = Append(@, Consumed(before, after, line))]
           /\ IF after.err # ""
              THEN AfterBuilder("map", after.err, AfterMap)
              ELSE /\ old_line' = after.old_line
                   /\ new_line' = after.new_line
                   /\ li' = li + 1
                   /\ UNCHANGED <<pc, fi, outcome>>
    /\ UNCHANGED <<caller, diffs, new_line_num, line_type_mapping,
                   commentable_lines, file_to_lines, postvars>>

MapReturn ==
    /\ pc = "map" /\ AtFileEnd /\ fi = Len(diffs)
    /\ AfterBuilder("map", "returned", AfterMap)
    /\ UNCHANGED <<caller, diffs, new_line_num, line_type_mapping, line_mapping,
                   commentable_lines, file_to_lines, walked, postvars>>

\* get_all_commentable_lines_from_mr_diffs: the result of the file just
\* walked is stored under its path
Stored == IF fi = 0 THEN file_to_lines
          ELSE Put(file_to_lines, diffs[fi].new_path, commentable_lines)

\* for file_diff in mr_diffs: extract_commentable_lines_from_diff(diff_text)
\* starts with commentable_lines = set() and new_line_num = None
VisBeginFile ==
    /\ pc = "vis" /\ AtFileEnd /\ fi < Len(diffs)
    /\ file_to_lines' = Stored
    /\ fi' = fi + 1
    /\ li' = 1
    /\ commentable_lines' = {}
    /\ new_line_num' = None
    /\ UNCHANGED <<caller, diffs, pc, outcome, old_line, new_line,
                   line_type_mapping, line_mapping, walked, postvars>>

VisStep ==
    /\ pc = "vis" /\ fi >= 1 /\ li <= Len(diffs[fi].diff)
    /\ LET line   == diffs[fi].diff[li]
           before == [old_line |-> None, new_line |-> new_line_num,
                      mapping |-> commentable_lines, err |-> "", branch |-> ""]
           after  == VisLine(before, line)
       IN  /\ commentable_lines' = after.mapping
           /\ walked' = [walked EXCEPT !.vis = Append(@, Consumed(before, after, line))]
           /\ IF after.err # ""
              THEN /\ outcome' = [outcome EXCEPT !.vis = after.err]
                   /\ pc' = "done"
                   /\ UNCHANGED <<fi, li, new_line_num>>
              ELSE /\ new_line_num' = after.new_line
                   /\ li' = li + 1
                   /\ UNCHANGED <<pc, fi, outcome>>
    /\ UNCHANGED <<caller, diffs, old_line, new_line, line_type_mapping,
                   line_mapping, file_to_lines, postvars>>

\* what follows get_all_commentable_lines_from_mr_diffs
AfterVis == IF caller = "snap" THEN "adjust" ELSE "done"

\* return file_to_lines
VisReturn ==
    /\ pc = "vis" /\ AtFileEnd /\ fi = Len(diffs)
    /\ file_to_lines' = Stored
    /\ outcome' = [outcome EXCEPT !.vis = "returned",
                                  ![AfterVis] = IF AfterVis = "adjust"
                                                THEN "running" ELSE @]
    /\ pc' = AfterVis
    /\ UNCHANGED <<caller, diffs, fi, li, old_line, new_line, new_line_num,
                   line_type_mapping, line_mapping, commentable_lines, walked,
                   postvars>>

Next ==
    \/ TypeBeginFile
    \/ TypeStep
    \/ TypeReturn
    \/ MapBeginFile
    \/ MapStep
    \/ MapReturn
    \/ VisBeginFile
    \/ VisStep
    \/ VisReturn

Spec == Init /\ [][Next]_vars

----------------------------------------------------------------------------
(* post_line_comments_direct(project_id, mr_iid, comments, diffs).  A       *)
(* comment is a dict: a function from the keys it holds.  project_id and   *)
(* mr_iid are the same in every call and are left out of the records.      *)

\* c.get(key) where a str is expected
GetStr(c, key) == IF key \in DOMAIN c THEN c[key] ELSE NoneStr

\* c.get(key) where an int is expected
GetInt(c, key) == IF key \in DOMAIN c THEN c[key] ELSE None

\* bool(v) of a str or None
TruthyStr(v) == IF v = NoneStr THEN FALSE ELSE v # ""

\* bool(v) of an int or None
TruthyInt(v) == IF v = None THEN FALSE ELSE v # 0

\* faulty variant: the comment text is not asked for
MissingRequiredNoComment(c) ==
    IF ~TruthyStr(GetStr(c, "new_path")) THEN TRUE
    ELSE ~TruthyInt(GetInt(c, "line"))

\* not c.get("new_path") or not c.get("line") or not c.get("comment")
MissingRequired(c) ==
    IF ~TruthyStr(GetStr(c, "new_path")) THEN TRUE
    ELSE IF ~TruthyInt(GetInt(c, "line")) THEN TRUE
    ELSE ~TruthyStr(GetStr(c, "comment"))

\* a subscript c[key] the try block evaluates raises KeyError on a key
\* the dict does not hold
Subscripted == {"new_path", "line", "comment"}

\* faulty variant: the kind is looked up even when the comment brings one
ResolveTypeAlways(c, type_index) ==
    LET key == <<c["new_path"], c["line"]>>
    IN  Put(c, "type", IF key \in DOMAIN type_index
                       THEN type_index[key] ELSE NoneStr)

\* if not c.get("type"): c["type"] = line_type_mapping.get(key)
ResolveType(c, type_index) ==
    IF TruthyStr(GetStr(c, "type")) THEN c
    ELSE LET key == <<c["new_path"], c["line"]>>
         IN  Put(c, "type", IF key \in DOMAIN type_index
                            THEN type_index[key] ELSE NoneStr)

\* faulty variant: the comment is moved to the old line that was found
FillOldLineMovesLine(c, old_index) ==
    IF GetStr(c, "type") \in {"deleted", "unchanged"}
    THEN LET key == <<c["new_path"], c["line"]>>
             mapped_old_line == IF key \in DOMAIN old_index
                                THEN old_index[key] ELSE None
         IN  IF mapped_old_line # None
             THEN Put(Put(c, "old_line", mapped_old_line), "line", mapped_old_line)
             ELSE c
    ELSE c

\* faulty variant: an old_line the comment has is the line looked up
FillOldLineByOldLine(c, old_index) ==
    IF GetStr(c, "type") \in {"deleted", "unchanged"}
    THEN LET key == <<c["new_path"], IF "old_line" \in DOMAIN c
                                    THEN c["old_line"] ELSE c["line"]>>
             mapped_old_line == IF key \in DOMAIN old_index
                                THEN old_index[key] ELSE None
         IN  IF mapped_old_line # None
             THEN Put(c, "old_line", mapped_old_line)
             ELSE c
    ELSE c

\* if c.get("type") in ("deleted", "unchanged"): fill old_line from
\* line_mapping.get(key) unless that is None
FillOldLine(c, old_index) ==
    IF GetStr(c, "type") \in {"deleted", "unchanged"}
    THEN LET key == <<c["new_path"], c["line"]>>
             mapped_old_line == IF key \in DOMAIN old_index
                                THEN old_index[key] ELSE None
         IN  IF mapped_old_line # None
             THEN Put(c, "old_line", mapped_old_line)
             ELSE c
    ELSE c

\* faulty variant: the base identifier is sent as the start identifier
CommentParamsBaseTwice(c, refs) ==
    [body          |-> c["comment"],
     position_type |-> IF "position_type" \in DOMAIN c
                       THEN c["position_type"] ELSE "text",
     new_path      |-> c["new_path"],
     old_path      |-> GetStr(c, "old_path"),
     base_sha      |-> refs.base_sha,
     start_sha     |-> refs.base_sha,
     head_sha      |-> refs.head_sha,
     new_line      |-> c["line"],
     old_line      |-> GetInt(c, "old_line"),
     type          |-> GetStr(c, "type")]

\* comment_params
CommentParams(c, refs) ==
    [body          |-> c["comment"],
     position_type |-> IF "position_type" \in DOMAIN c
                       THEN c["position_type"] ELSE "text",
     new_path      |-> c["new_path"],
     old_path      |-> GetStr(c, "old_path"),
     base_sha      |-> refs.base_sha,
     start_sha     |-> refs.start_sha,
     head_sha      |-> refs.head_sha,
     new_line      |-> c["line"],
     old_line      |-> GetInt(c, "old_line"),
     type          |-> GetStr(c, "type")]

\* gitlab_create_merge_request_thread: the position object it posts
Position(p) ==
    LET base == [k \in {"position_type", "base_sha", "start_sha", "head_sha"}
                     |-> p[k]]
        l1   == Put(base, "new_line", p.new_line)
        l2   == Put(l1, "old_line", p.old_line)
        l3   == IF TruthyStr(p.new_path) THEN Put(l2, "new_path", p.new_path) ELSE l2
    IN  IF TruthyStr(p.old_path) THEN Put(l3, "old_path", p.old_path) ELSE l3

\* the comments the Reviewer may hand over
Comment(path, line, text) == [new_path |-> path, line |-> line, comment |-> text]

CommentPool ==
    {Put(Put(Comment("a.py", 2, "x"), "position_type", "text"), "old_path", "a.py"),
     Comment("a.py", 1, "x"),
     Comment("a.py", 10, "x"),
     Put(Comment("a.py", 4, "x"), "type", "deleted"),
     Comment("a.py", 4, "x"),
     Put(Put(Comment("a.py", 2, "x"), "type", "unchanged"), "old_line", 9),
     Put(Put(Comment("a.py", 1, "x"), "type", "deleted"), "old_line", 9),
     [line |-> 2, comment |-> "x"],
     [new_path |-> "a.py", comment |-> "x"],
     [new_path |-> "a.py", line |-> 2]}

\* most comments of one review
MaxComments == 2

RECURSIVE BatchesOfLength(_)
BatchesOfLength(n) ==
    IF n = 0 THEN {<<>>}
    ELSE {Append(b, c) : b \in BatchesOfLength(n - 1), c \in CommentPool}

Batches == UNION {BatchesOfLength(n) : n \in 0..MaxComments}

\* what get_gitlab_mr_diff_refs answers: the three identifiers, each of
\* which may be None, or an HTTP error (raise_for_status)
RefInputs ==
    {[status |-> "ok", base_sha |-> b, start_sha |-> s, head_sha |-> h] :
        b \in {NoneStr, "b1"}, s \in {NoneStr, "s1"}, h \in {NoneStr, "h1"}}
    \cup {[status |-> "HTTPError", base_sha |-> NoneStr, start_sha |-> NoneStr,
           head_sha |-> NoneStr]}

\* the merge requests post_line_comments_direct is run on
PostDiffInputs ==
    {<<>>,
     <<FileDiff("a.py", ScenarioA)>>,
     <<FileDiff("a.py", Replaced), FileDiff("b.py", OtherDiff)>>,
     <<FileDiff("a.py", <<HunkA, ContextLine>>)>>,
     <<FileDiff("a.py", <<HunkCut>>), FileDiff("b.py", OtherDiff)>>,
     <<FileDiff("a.py", ScenarioA), FileDiff("b.py", <<HunkNaN, AddedLine>>)>>,
     <<FileDiff("a.py", <<AddedLine, HunkA, AddedLine>>)>>,
     <<FileDiff("a.py", AddedThenRemoved)>>}

InitPost ==
    /\ caller = "post"
    /\ diffs \in PostDiffInputs
    /\ pc = "refs"
    /\ outcome = [f \in Functions |-> IF f = "post" THEN "running" ELSE "pending"]
    /\ NoWalk
    /\ diff_refs \in RefInputs
    /\ candidates \in Batches
    /\ comments = candidates
    /\ idx = 1
    /\ calls = <<>>
    /\ log = <<>>
    /\ fetched = 0
    /\ run = 1
    /\ first = <<>>
    /\ adjusted = <<>>
    /\ passes = <<>>
    /\ turn = 0

\* base_sha, start_sha, head_sha = get_gitlab_mr_diff_refs(...), and the
\* return when one of them is missing
GetDiffRefs ==
    /\ pc = "refs"
    /\ IF diff_refs.status # "ok"
       THEN /\ outcome' = [outcome EXCEPT !.post = diff_refs.status]
            /\ pc' = "done"
       ELSE IF TruthyStr(diff_refs.base_sha) /\ TruthyStr(diff_refs.start_sha)
               /\ TruthyStr(diff_refs.head_sha)
       THEN /\ outcome' = [outcome EXCEPT !.type = "running"]
            /\ pc' = "type"
       ELSE /\ outcome' = [outcome EXCEPT !.post = "returned"]
            /\ pc' = "done"
    /\ fetched' = fetched + 1
    /\ UNCHANGED <<caller, diffs, walkvars, diff_refs, candidates, comments,
                   idx, calls, log, run, first, adjusted, passes, turn>>

\* one iteration of `for idx, c in enumerate(comments, 1)`: the try block
\* and its except.  response is what the Host API answers if it is called.
IterationWith(c, response, type_index, old_index, refs, i) ==
    IF MissingRequired(c)
    THEN [c |-> c, call |-> <<>>, result |-> "skipped"]
    ELSE IF ~(Subscripted \subseteq DOMAIN c)
    THEN [c |-> c, call |-> <<>>, result |-> "failed"]
    ELSE LET filled == FillOldLine(ResolveType(c, type_index), old_index)
             params == CommentParams(filled, refs)
         IN  [c |-> filled,
              call |-> <<[idx |-> i, params |-> params,
                          position |-> Position(params)]>>,
              result |-> IF response = "ok" THEN "posted" ELSE "failed"]

\* the iteration on the locals of the running call
Iteration(c, response) ==
    IterationWith(c, response, line_type_mapping, line_mapping, diff_refs, idx)

\* faulty variant: a failed call ends the loop
ProcessCommentStopOnError ==
    /\ pc = "loop" /\ idx <= Len(comments)
    /\ \E response \in {"ok", "error"} :
           LET it == Iteration(comments[idx], response)
           IN  /\ comments' = [comments EXCEPT ![idx] = it.c]
               /\ calls' = calls \o it.call
               /\ log' = Append(log, it.result)
               /\ idx' = IF it.result = "failed"
                         THEN Len(comments) + 1 ELSE idx + 1
    /\ UNCHANGED <<caller, diffs, pc, outcome, walkvars, diff_refs, candidates,
                   fetched, run, first, adjusted, passes, turn>>

ProcessComment ==
    /\ pc = "loop" /\ idx <= Len(comments)
    /\ \E response \in {"ok", "error"} :
           LET it == Iteration(comments[idx], response)
           IN  /\ comments' = [comments EXCEPT ![idx] = it.c]
               /\ calls' = calls \o it.call
               /\ log' = Append(log, it.result)
    /\ idx' = idx + 1
    /\ UNCHANGED <<caller, diffs, pc, outcome, walkvars, diff_refs, candidates,
                   fetched, run, first, adjusted, passes, turn>>

\* the loop is over: post_line_comments_direct returns None
PostReturn ==
    /\ pc = "loop" /\ idx > Len(comments)
    /\ outcome' = [outcome EXCEPT !.post = "returned"]
    /\ pc' = "done"
    /\ UNCHANGED <<caller, diffs, walkvars, postvars>>

NextPost ==
    \/ GetDiffRefs
    \/ TypeBeginFile
    \/ TypeStep
    \/ TypeReturn
    \/ MapBeginFile
    \/ MapStep
    \/ MapReturn
    \/ ProcessComment
    \/ PostReturn

SpecPost == InitPost /\ [][NextPost]_vars

----------------------------------------------------------------------------
(* What the claims speak of: the kind of a diff line as section 4.1 of the *)
(* specification reads it off the text, and the history of a walk.         *)

IsFileHeaderText(t) ==
    IF StartsWith(t, Plus3) THEN TRUE ELSE StartsWith(t, Minus3)

KindOf(t) ==
    IF StartsWith(t, AtAt) THEN "header"
    ELSE IF IsFileHeaderText(t) THEN "fileheader"
    ELSE IF StartsWith(t, Plus) THEN "added"
    ELSE IF StartsWith(t, Minus) THEN "removed"
    ELSE "context"

ContentKinds == {"added", "removed", "context"}

Has(d, k) == k \in DOMAIN d

Walkers == {"type", "map", "vis"}

\* the lines walker W has consumed of the file it is in
Current(W) == SelectSeq(walked[W], LAMBDA e : e.file = fi)

\* the index in es of the last hunk header, 0 when there is none
LastHeader(es) ==
    LET hs == {k \in 1..Len(es) : KindOf(es[k].text) = "header"}
    IN  IF hs = {} THEN 0 ELSE CHOOSE k \in hs : \A j \in hs : j <= k

\* how many of es[from..] are of one of the kinds
CountKinds(es, from, kinds) ==
    Cardinality({k \in from..Len(es) : KindOf(es[k].text) \in kinds})

\* the counters of the running walker W (the third one keeps no old_line)
OldCounter(W) == IF W = "vis" THEN None ELSE old_line
NewCounter(W) == IF W = "vis" THEN new_line_num ELSE new_line

----------------------------------------------------------------------------
\* C1: while a walker is inside a hunk whose header is @@ -a,b +c,d @@ and
\* whose body so far holds added, removed and context lines only, its
\* new-line counter is c plus the number of added-or-context lines consumed
\* since the header and (in the two builders, which keep one) its old-line
\* counter is a plus the number of removed-or-context lines consumed since
\* the header; with the body empty this is old_line = a, new_line = c right
\* after the header, for a first header and for a later one alike.
C1_HunkCounters ==
    \A W \in Walkers :
        (pc = W /\ fi >= 1) =>
            LET es == Current(W)
                h  == LastHeader(es)
            IN  (h > 0 /\ \A k \in (h + 1)..Len(es) :
                              KindOf(es[k].text) \in ContentKinds) =>
                    /\ NewCounter(W) = ParseHeaderNew(es[h].text).new_start
                           + CountKinds(es, h + 1, {"added", "context"})
                    /\ W # "vis" =>
                           OldCounter(W) = ParseHeader(es[h].text).old_start
                               + CountKinds(es, h + 1, {"removed", "context"})

\* a builder has consumed @@ -2,2 +5,2 @@, a removed and an added line
C1_Witness ==
    /\ pc = "map" /\ fi >= 1
    /\ LET es == Current("map")
       IN  /\ Len(es) = 3
           /\ es[1].text = HunkB
           /\ es[2].text = RemovedLine
           /\ es[3].text = AddedLine
    /\ old_line = 3
    /\ new_line = 6

\* C2: a line that begins with +++ or --- is never treated as content: the
\* walker that consumes it raises nothing, writes no entry and advances
\* neither counter.
C2_FileHeadersIgnored ==
    \A W \in Walkers : \A k \in 1..Len(walked[W]) :
        LET e == walked[W][k]
        IN  IsFileHeaderText(e.text) =>
                /\ e.err = ""
                /\ ~e.wrote
                /\ e.old_after = e.old
                /\ e.new_after = e.new

\* line k of the history es comes before the first hunk header of its file
BeforeFirstHeader(es, k) ==
    \A j \in 1..(k - 1) :
        es[j].file = es[k].file => KindOf(es[j].text) # "header"

\* C3: an added, removed or context line before the first @@ header makes
\* no walker raise and adds no entry.
C3_PrefixTolerated ==
    \A W \in Walkers : \A k \in 1..Len(walked[W]) :
        LET e == walked[W][k]
        IN  (KindOf(e.text) \in ContentKinds /\ BeforeFirstHeader(walked[W], k)) =>
                (e.err = "" /\ ~e.wrote)

\* a hunk header of the text does not parse
UnparseableHeader(text) ==
    \E k \in 1..Len(text) :
        KindOf(text[k]) = "header" /\ ParseHeader(text[k]).err # ""

\* the three revision identifiers were answered
RefsAvailable ==
    /\ diff_refs.status = "ok"
    /\ TruthyStr(diff_refs.base_sha)
    /\ TruthyStr(diff_refs.start_sha)
    /\ TruthyStr(diff_refs.head_sha)

\* C4: when a file of the merge request has an unparseable hunk header,
\* both index builders still return (with the entries of the other files)
\* and post_line_comments_direct goes through every comment of the batch.
C4_MalformedRecovered ==
    (caller = "post" /\ pc = "done" /\ RefsAvailable
        /\ \E f \in 1..Len(diffs) : UnparseableHeader(diffs[f].diff)) =>
        /\ outcome["type"] = "returned"
        /\ outcome["map"] = "returned"
        /\ outcome["post"] = "returned"
        /\ Len(log) = Len(comments)
        /\ \A f \in 1..Len(diffs) :
               ~UnparseableHeader(diffs[f].diff) =>
                   \E key \in DOMAIN line_type_mapping : key[1] = diffs[f].new_path

\* C5: in the index build_line_type_mapping_from_diff returns, every
\* removed line at old line k of file f has the entry (f, k) -> deleted,
\* and a removed line adds no number to the visible lines of its file.
C5_RemovedKeptDeleted ==
    /\ outcome["type"] = "returned" =>
           \A k \in 1..Len(walked["type"]) :
               LET e == walked["type"][k]
               IN  KindOf(e.text) = "removed" =>
                       /\ Has(line_type_mapping, <<e.path, e.old>>)
                       /\ line_type_mapping[<<e.path, e.old>>] = "deleted"
    /\ \A k \in 1..Len(walked["vis"]) :
           KindOf(walked["vis"][k].text) = "removed" => ~walked["vis"][k].wrote

\* C6: n is a visible line of file f exactly when the kind index maps
\* (f, n) to new (added) or unchanged.
C6_VisibleIffKind ==
    (pc = "done" /\ outcome["type"] = "returned" /\ outcome["vis"] = "returned") =>
        \A key \in (DOMAIN line_type_mapping)
                    \cup {<<f, n>> : f \in DOMAIN file_to_lines,
                                     n \in UNION {file_to_lines[g] : g \in DOMAIN file_to_lines}} :
            (Has(file_to_lines, key[1]) /\ key[2] \in file_to_lines[key[1]])
            <=> (Has(line_type_mapping, key)
                 /\ line_type_mapping[key] \in {"new", "unchanged"})

\* the index of Scenario A
ScenarioAIndex ==
    [key \in {<<"a.py", n>> : n \in 1..4} |->
        IF key[2] = 1 THEN 1
        ELSE IF key[2] = 2 THEN None
        ELSE key[2] - 1]

\* the entry the returned line_mapping holds for history line k is the one
\* the claim names for a line of its kind
EntryAsClaimed(k) ==
    LET e   == walked["map"][k]
        key == <<e.path, e.new>>
    IN  /\ KindOf(e.text) = "context" =>
               (Has(line_mapping, key) /\ line_mapping[key] = e.old)
        /\ KindOf(e.text) = "added" =>
               (Has(line_mapping, key) /\ line_mapping[key] = None)
        /\ KindOf(e.text) = "removed" => ~e.wrote

\* a later line of the same file path was recorded at the new-line number
\* of history line k
Overwritten(k) ==
    \E j \in (k + 1)..Len(walked["map"]) :
        /\ walked["map"][j].path = walked["map"][k].path
        /\ walked["map"][j].new = walked["map"][k].new
        /\ KindOf(walked["map"][j].text) \notin {"removed", "header"}

PureContext(text) ==
    /\ Len(text) >= 1
    /\ KindOf(text[1]) = "header"
    /\ ParseHeader(text[1]).err = ""
    /\ \A k \in 2..Len(text) : KindOf(text[k]) = "context"

\* C8: for a single hunk @@ -a,n +c,n @@ of n context lines, the visible
\* lines are exactly c..c+n-1 and the correspondence index maps every m of
\* that range to a + (m - c), and holds nothing else.
C8_PureContextLockStep ==
    (pc = "done" /\ Len(diffs) = 1 /\ PureContext(diffs[1].diff)) =>
        LET f == diffs[1].new_path
            a == ParseHeader(diffs[1].diff[1]).old_start
            c == ParseHeader(diffs[1].diff[1]).new_start
            n == Len(diffs[1].diff) - 1
        IN  /\ outcome["map"] = "returned"
            /\ outcome["vis"] = "returned"
            /\ file_to_lines[f] = c..(c + n - 1)
            /\ DOMAIN line_mapping = {<<f, m>> : m \in c..(c + n - 1)}
            /\ \A m \in c..(c + n - 1) : line_mapping[<<f, m>>] = a + (m - c)

C8_Witness ==
    /\ pc = "done"
    /\ diffs = <<FileDiff("a.py", <<HunkB, ContextLine, ContextLine>>)>>
    /\ file_to_lines["a.py"] = {5, 6}
    /\ line_mapping[<<"a.py", 6>>] = 3

\* the comment lacks one of the three required fields
LacksRequired(c) == ~({"new_path", "line", "comment"} \subseteq DOMAIN c)

\* the calls made for comment k of the batch
CallsFor(k) == {j \in 1..Len(calls) : calls[j].idx = k}

\* C9: a comment that lacks new_path, line or comment text is skipped: no
\* exception leaves post_line_comments_direct, no call is made for it, and
\* the loop goes on to the end of the batch, calling the Host API for each
\* comment that has the three fields.
C9_MissingFieldSkipped ==
    caller = "post" =>
        /\ \A k \in 1..Len(log) :
               IF LacksRequired(candidates[k])
               THEN log[k] = "skipped" /\ CallsFor(k) = {}
               ELSE log[k] # "skipped" /\ CallsFor(k) # {}
        /\ (pc = "done" /\ outcome["map"] = "returned") =>
               (outcome["post"] = "returned" /\ Len(log) = Len(candidates))

\* a batch whose first comment lacks a field and whose second was posted
C9_Witness ==
    /\ caller = "post" /\ pc = "done"
    /\ Len(candidates) = 2
    /\ "comment" \notin DOMAIN candidates[1]
    /\ log = <<"skipped", "posted">>
    /\ Len(calls) = 1
    /\ calls[1].idx = 2

\* the kind index holds no entry for the line comment c names
NoKindEntry(c) == <<c["new_path"], c["line"]>> \notin DOMAIN line_type_mapping

\* C10: for every comment that has passed the loop with its three fields,
\* a kind it brought is the kind it keeps and the kind submitted; a missing
\* kind is set to the entry of the kind index for (new_path, line), None
\* when there is none; and in that last case the comment is still
\* submitted, with the old_line it came with.
C10_KindResolution ==
    caller = "post" =>
        \A k \in 1..Len(log) :
            LET c == candidates[k]
            IN  ~LacksRequired(c) =>
                    \E j \in CallsFor(k) :
                        /\ comments[k]["type"] = calls[j].params.type
                        /\ IF TruthyStr(GetStr(c, "type"))
                           THEN comments[k]["type"] = c["type"]
                           ELSE IF NoKindEntry(c)
                           THEN /\ comments[k]["type"] = NoneStr
                                /\ calls[j].params.old_line = GetInt(c, "old_line")
                                /\ GetInt(comments[k], "old_line") = GetInt(c, "old_line")
                           ELSE comments[k]["type"] =
                                    line_type_mapping[<<c["new_path"], c["line"]>>]

\* Scenario A: a comment that brings kind deleted for the unchanged line 4,
\* and a comment on line 10, which the index does not hold
C10_Witness ==
    /\ caller = "post" /\ pc = "done"
    /\ diffs = <<FileDiff("a.py", ScenarioA)>>
    /\ Len(candidates) = 2
    /\ candidates[1] = Put(Comment("a.py", 4, "x"), "type", "deleted")
    /\ candidates[2] = Comment("a.py", 10, "x")
    /\ Len(calls) = 2
    /\ line_type_mapping[<<"a.py", 4>>] = "unchanged"
    /\ calls[1].params.type = "deleted"
    /\ calls[2].params.type = NoneStr
    /\ calls[2].params.old_line = None

----------------------------------------------------------------------------
\* extract_commentable_lines_from_diff as one function of the diff text:
\* the locals after the first n lines
RECURSIVE VisAfter(_, _)
VisAfter(text, n) ==
    IF n = 0
    THEN [old_line |-> None, new_line |-> None, mapping |-> {}, err |-> "",
          branch |-> ""]
    ELSE LET w == VisAfter(text, n - 1)
         IN  IF w.err # "" THEN w ELSE VisLine(w, text[n])

\* the set extract_commentable_lines_from_diff returns ({} when it raises)
CommentableLines(text) ==
    LET w == VisAfter(text, Len(text))
    IN  IF w.err # "" THEN {} ELSE w.mapping

\* the commentable lines of the file a comment names
VisibleLineSet(path) ==
    UNION {CommentableLines(diffs[f].diff) :
               f \in {g \in 1..Len(diffs) : diffs[g].new_path = path}}

\* the value line_mapping.get((new_path, line)) of comment c
PairedOldLine(c) ==
    IF <<c["new_path"], c["line"]>> \in DOMAIN line_mapping
    THEN line_mapping[<<c["new_path"], c["line"]>>] ELSE None

\* C11: the old_line sent for a comment is the candidate's own old_line
\* when it has one (no lookup replaces it), and otherwise the old line the
\* correspondence index pairs with the commented line, or none.
C11_SuppliedOldLineKept ==
    caller = "post" =>
        \A k \in 1..Len(log) : \A j \in CallsFor(k) :
            LET c == candidates[k]
            IN  IF "old_line" \in DOMAIN c
                THEN calls[j].params.old_line = c["old_line"]
                ELSE calls[j].params.old_line \in {None, PairedOldLine(c)}

\* the new-line numbers of the added lines of the file named path
AddedNewLines(path) ==
    {e.new : e \in {x \in {walked["type"][k] : k \in 1..Len(walked["type"])} :
                        x.path = path /\ KindOf(x.text) = "added"}}

\* C12: a comment without kind and without old_line whose line is the
\* new-line number of an added line of its file is given the kind of an
\* added line (the source's name for it is "new"), keeps its line as
\* new_line and is submitted with old_line unset.
C12_AddedLineComment ==
    caller = "post" =>
        \A k \in 1..Len(log) :
            LET c == candidates[k]
            IN  (/\ ~LacksRequired(c)
                 /\ "type" \notin DOMAIN c
                 /\ "old_line" \notin DOMAIN c
                 /\ c["line"] \in AddedNewLines(c["new_path"])) =>
                    \E j \in CallsFor(k) :
                        /\ calls[j].params.type = "new"
                        /\ calls[j].params.new_line = c["line"]
                        /\ calls[j].params.old_line = None

\* C14: no thread is created for a line outside the commentable lines of
\* its file: every call made carries a new_line of VisibleLineSet[new_path].
C14_OnlyVisibleLinesPosted ==
    caller = "post" =>
        \A j \in 1..Len(calls) :
            calls[j].params.new_line \in VisibleLineSet(calls[j].params.new_path)

----------------------------------------------------------------------------
(* adjust_comments_to_nearest_visible(comments, file_to_lines), applied to *)
(* the comments of a review and the dict of commentable lines of its merge *)
(* request, one comment per step.                                          *)

\* l <= new_line for a line l of the file: Python compares an int with an
\* int and raises TypeError on an int and None
NotAfter(l, line) ==
    IF line = None THEN "TypeError"
    ELSE IF l <= line THEN "True" ELSE "False"

\* map_to_nearest_commentable_line(file_path, new_line, file_to_lines)
map_to_nearest_commentable_line(file_path, line, lines_of) ==
    IF file_path \notin DOMAIN lines_of
    THEN [err |-> "", value |-> None]
    ELSE LET lines       == lines_of[file_path]
             valid_lines == {l \in lines : NotAfter(l, line) = "True"}
         IN  IF \E l \in lines : NotAfter(l, line) = "TypeError"
             THEN [err |-> "TypeError", value |-> None]
             ELSE IF valid_lines = {}
             THEN [err |-> "", value |-> None]
             ELSE [err |-> "",
                   value |-> CHOOSE l \in valid_lines :
                                 \A m \in valid_lines : m <= l]

\* the comments handed to adjust_comments_to_nearest_visible: with the
\* line in the field `line`, as the prompt asks the Reviewer for it, or in
\* the field `new_line`
SnapCommentPool ==
    {Comment("a.py", 10, "x"),
     Comment("a.py", 2, "x"),
     Comment("z.py", 1, "x"),
     [new_path |-> "a.py", new_line |-> 10, comment |-> "x"],
     [new_path |-> "a.py", new_line |-> 2, comment |-> "x"]}

RECURSIVE SnapBatchesOfLength(_)
SnapBatchesOfLength(n) ==
    IF n = 0 THEN {<<>>}
    ELSE {Append(b, c) : b \in SnapBatchesOfLength(n - 1), c \in SnapCommentPool}

SnapBatches == UNION {SnapBatchesOfLength(n) : n \in 0..MaxComments}

SnapDiffInputs ==
    {<<FileDiff("a.py", ScenarioA)>>,
     <<FileDiff("a.py", OtherDiff)>>,
     <<FileDiff("a.py", <<>>)>>,
     <<FileDiff("a.py", Replaced), FileDiff("b.py", OtherDiff)>>,
     <<FileDiff("a.py", <<AddedLine>>)>>}

InitSnap ==
    /\ caller = "snap"
    /\ diffs \in SnapDiffInputs
    /\ pc = "vis"
    /\ outcome = [f \in Functions |-> IF f = "vis" THEN "running" ELSE "pending"]
    /\ NoWalk
    /\ diff_refs = [base_sha |-> NoneStr, start_sha |-> NoneStr,
                    head_sha |-> NoneStr]
    /\ candidates \in SnapBatches
    /\ comments = candidates
    /\ idx = 1
    /\ calls = <<>>
    /\ log = <<>>
    /\ fetched = 0
    /\ run = 1
    /\ first = <<>>
    /\ adjusted = <<>>
    /\ passes = <<>>
    /\ turn = 0

\* one iteration of `for c in comments`
AdjustComment ==
    /\ pc = "adjust" /\ idx <= Len(comments)
    /\ LET c           == comments[idx]
           file_path   == GetStr(c, "new_path")
           mapped_line == map_to_nearest_commentable_line(
                              file_path, GetInt(c, "new_line"), file_to_lines)
       IN  IF mapped_line.err # ""
           THEN /\ outcome' = [outcome EXCEPT !.adjust = mapped_line.err]
                /\ pc' = "done"
                /\ UNCHANGED <<idx, adjusted, log>>
           ELSE /\ adjusted' = IF mapped_line.value # None
                               THEN Append(adjusted,
                                           Put(c, "new_line", mapped_line.value))
                               ELSE adjusted
                /\ log' = Append(log, IF mapped_line.value # None
                                      THEN "kept" ELSE "dropped")
                /\ idx' = idx + 1
                /\ UNCHANGED <<pc, outcome>>
    /\ UNCHANGED <<caller, diffs, walkvars, diff_refs, candidates, comments,
                   calls, fetched, run, first, passes, turn>>

\* return adjusted
AdjustReturn ==
    /\ pc = "adjust" /\ idx > Len(comments)
    /\ outcome' = [outcome EXCEPT !.adjust = "returned"]
    /\ pc' = "done"
    /\ UNCHANGED <<caller, diffs, walkvars, postvars>>

NextSnap ==
    \/ VisBeginFile
    \/ VisStep
    \/ VisReturn
    \/ AdjustComment
    \/ AdjustReturn

SpecSnap == InitSnap /\ [][NextSnap]_vars

\* the line section 4.4 of the specification snaps a claimed line to: the
\* largest commentable line of the file not after it, None when the file is
\* unknown or has no such line
SnapTarget(c) ==
    IF c["new_path"] \notin DOMAIN file_to_lines THEN None
    ELSE LET below == {l \in file_to_lines[c["new_path"]] : l <= c["line"]}
         IN  IF below = {} THEN None
             ELSE CHOOSE l \in below : \A m \in below : m <= l

\* the targets of the comments that have one, in the order of the comments
RECURSIVE SnapTargets(_, _)
SnapTargets(cs, n) ==
    IF n = 0 THEN <<>>
    ELSE IF SnapTarget(cs[n]) = None THEN SnapTargets(cs, n - 1)
    ELSE Append(SnapTargets(cs, n - 1), SnapTarget(cs[n]))

\* C13: when every comment carries its claimed line in the field `line`,
\* adjust_comments_to_nearest_visible returns, in order, the comments whose
\* file is known and has a commentable line not after the claimed line,
\* each at the largest such line (its own line when that is commentable),
\* and drops the others.
C13_SnappedToNearest ==
    (/\ caller = "snap" /\ pc = "done" /\ outcome["vis"] = "returned"
     /\ \A k \in 1..Len(candidates) : "line" \in DOMAIN candidates[k]) =>
        /\ outcome["adjust"] = "returned"
        /\ [k \in 1..Len(adjusted) |-> adjusted[k]["new_line"]]
               = SnapTargets(candidates, Len(candidates))

----------------------------------------------------------------------------
(* post_line_comments_direct called a second time with the list of         *)
(* comments the first call has written into.  The second call is given the *)
(* same revision identifiers and builds the same two indexes from the same *)
(* diffs, so they are kept and the second comment loop starts at once.     *)

RunAgain ==
    /\ pc = "loop" /\ idx > Len(comments) /\ run = 1
    /\ run' = 2
    /\ first' = calls
    /\ calls' = <<>>
    /\ log' = <<>>
    /\ idx' = 1
    /\ UNCHANGED <<caller, diffs, pc, outcome, walkvars, diff_refs, candidates,
                   comments, fetched, adjusted, passes, turn>>

NextTwice ==
    \/ NextPost
    \/ RunAgain

SpecTwice == InitPost /\ [][NextTwice]_vars

\* C15: in a second run over the same comments, indexes and identifiers,
\* every call repeats the call the first run made at the same place: the
\* same comment, the same parameters (kind, new_line, old_line, paths) and
\* the same position record; and the second run makes as many calls.
C15_SecondRunSame ==
    (caller = "post" /\ run = 2) =>
        /\ Len(calls) <= Len(first)
        /\ \A j \in 1..Len(calls) : calls[j] = first[j]
        /\ pc = "done" => Len(calls) = Len(first)

\* Scenario A, a comment on line 4 that came with neither kind nor
\* old_line: the first run wrote both into it, the second run has ended
C15_Witness ==
    /\ caller = "post" /\ run = 2 /\ pc = "done"
    /\ diffs = <<FileDiff("a.py", ScenarioA)>>
    /\ candidates = <<Comment("a.py", 4, "x")>>
    /\ comments = <<Put(Put(Comment("a.py", 4, "x"), "type", "unchanged"),
                        "old_line", 3)>>
    /\ Len(first) = 1
    /\ calls = first
    /\ calls[1].position["old_line"] = 3

----------------------------------------------------------------------------
\* the comments among the first n of the batch that have the three required
\* fields, by their place in the batch, in order
RECURSIVE Validated(_)
Validated(n) ==
    IF n = 0 THEN <<>>
    ELSE IF LacksRequired(candidates[n]) THEN Validated(n - 1)
    ELSE Append(Validated(n - 1), n)

\* C16: whatever the Host API answers, the calls made so far are one call
\* for each comment processed so far that has the three required fields,
\* in the order of the batch: none is left out after a failed call, none is
\* made twice, and equal comments are each submitted; the loop ends only
\* when every comment has been processed.
C16_OneCallPerComment ==
    caller = "post" =>
        /\ [j \in 1..Len(calls) |-> calls[j].idx] = Validated(Len(log))
        /\ (pc = "done" /\ outcome["map"] = "returned") =>
               Len(log) = Len(candidates)

\* two equal comments, the call of the first failed, both were submitted
\* with the same position record
C16_Witness ==
    /\ caller = "post" /\ pc = "done"
    /\ Len(candidates) = 2
    /\ candidates[1] = candidates[2]
    /\ log = <<"failed", "posted">>
    /\ Len(calls) = 2
    /\ calls[1].position = calls[2].position

----------------------------------------------------------------------------
\* what a call of post_line_comments_direct that returns gives its caller:
\* the bare `return` after the identifiers were found missing and the end
\* of the body after the loop both give None, and agent.review_merge_request
\* does not look at it
ReturnValue == NoneStr

RefsMissing ==
    /\ diff_refs.status = "ok"
    /\ ~(/\ TruthyStr(diff_refs.base_sha)
         /\ TruthyStr(diff_refs.start_sha)
         /\ TruthyStr(diff_refs.head_sha))

\* C17: when one of the three identifiers is missing the pass processes no
\* comment and makes no call, and it does not end the way a completed pass
\* ends (a normal return of the value a completed pass returns).
C17_MissingRefsSurfaced ==
    (caller = "post" /\ pc = "done" /\ RefsMissing) =>
        /\ calls = <<>>
        /\ log = <<>>
        /\ ~(outcome["post"] = "returned" /\ ReturnValue = NoneStr)

\* C18: when the pass has returned, every comment of the batch is in
\* exactly one of the groups posted, skipped and failed, and the caller
\* has received that grouping as the result of the call.
C18_ManifestReturned ==
    (caller = "post" /\ pc = "done" /\ outcome["post"] = "returned"
         /\ ~RefsMissing) =>
        /\ Len(log) = Len(candidates)
        /\ \A k \in 1..Len(log) : log[k] \in {"posted", "skipped", "failed"}
        /\ ReturnValue # NoneStr

----------------------------------------------------------------------------
\* C19: the identifiers are fetched once, before any comment is processed,
\* and for every processed comment that has the three required fields a
\* position record was built and submitted that carries the fetched base,
\* start and head values, the comment's position_type ("text" when it has
\* none), its new_path, its line as new_line and its old_line.
C19_PositionRecord ==
    caller = "post" =>
        /\ fetched <= 1
        /\ fetched = 0 <=> pc = "refs"
        /\ fetched = 0 => log = <<>>
        /\ \A k \in 1..Len(log) :
               ~LacksRequired(candidates[k]) =>
                   \E j \in CallsFor(k) :
                       LET c   == candidates[k]
                           pos == calls[j].position
                       IN  /\ pos["base_sha"] = diff_refs.base_sha
                           /\ pos["start_sha"] = diff_refs.start_sha
                           /\ pos["head_sha"] = diff_refs.head_sha
                           /\ pos["position_type"] =
                                  IF "position_type" \in DOMAIN c
                                  THEN c["position_type"] ELSE "text"
                           /\ pos["new_path"] = c["new_path"]
                           /\ pos["new_line"] = c["line"]
                           /\ pos["old_line"] = GetInt(comments[k], "old_line")

\* Scenario A: a comment without position_type on line 4 and one on line 10
\* were submitted in one pass, after one fetch
C19_Witness ==
    /\ caller = "post" /\ pc = "done" /\ fetched = 1
    /\ diffs = <<FileDiff("a.py", ScenarioA)>>
    /\ candidates = <<Comment("a.py", 4, "x"), Comment("a.py", 10, "x")>>
    /\ Len(calls) = 2
    /\ calls[1].position = [position_type |-> "text", base_sha |-> "b1",
                            start_sha |-> "s1", head_sha |-> "h1",
                            new_line |-> 4, old_line |-> 3, new_path |-> "a.py"]
    /\ calls[2].position["old_line"] = None

----------------------------------------------------------------------------
(* The two index builders as functions of the whole collection of diffs:   *)
(* the locals after n lines of a file, and the dict after n files.         *)

RECURSIVE TypeFileAfter(_, _, _, _)
TypeFileAfter(mapping, path, text, n) ==
    IF n = 0
    THEN [old_line |-> None, new_line |-> None, mapping |-> mapping,
          err |-> "", branch |-> ""]
    ELSE LET w == TypeFileAfter(mapping, path, text, n - 1)
         IN  IF w.err # "" THEN w ELSE TypeLine(w, path, text[n])

RECURSIVE TypeIndexAfter(_, _)
TypeIndexAfter(diff_json, n) ==
    IF n = 0 THEN [mapping |-> EmptyDict, err |-> ""]
    ELSE LET done == TypeIndexAfter(diff_json, n - 1)
             w    == TypeFileAfter(done.mapping, diff_json[n].new_path,
                                   diff_json[n].diff, Len(diff_json[n].diff))
         IN  IF done.err # "" THEN done
             ELSE [mapping |-> w.mapping, err |-> w.err]

RECURSIVE MapFileAfter(_, _, _, _)
MapFileAfter(mapping, path, text, n) ==
    IF n = 0
    THEN [old_line |-> None, new_line |-> None, mapping |-> mapping,
          err |-> "", branch |-> ""]
    ELSE LET w == MapFileAfter(mapping, path, text, n - 1)
         IN  IF w.err # "" THEN w ELSE MapLine(w, path, text[n])

RECURSIVE MapIndexAfter(_, _)
MapIndexAfter(diff_json, n) ==
    IF n = 0 THEN [mapping |-> EmptyDict, err |-> ""]
    ELSE LET done == MapIndexAfter(diff_json, n - 1)
             w    == MapFileAfter(done.mapping, diff_json[n].new_path,
                                  diff_json[n].diff, Len(diff_json[n].diff))
         IN  IF done.err # "" THEN done
             ELSE [mapping |-> w.mapping, err |-> w.err]

\* the calls of the first n iterations of the comment loop
RECURSIVE CallsAfter(_, _, _, _, _)
CallsAfter(cs, type_index, old_index, refs, n) ==
    IF n = 0 THEN <<>>
    ELSE CallsAfter(cs, type_index, old_index, refs, n - 1)
             \o IterationWith(cs[n], "ok", type_index, old_index, refs, n).call

\* the calls post_line_comments_direct makes when it runs on its own
PostCalls(cs, ds, refs) ==
    LET types == TypeIndexAfter(ds, Len(ds))
        olds  == MapIndexAfter(ds, Len(ds))
    IN  IF refs.status # "ok" THEN <<>>
        ELSE IF ~(/\ TruthyStr(refs.base_sha) /\ TruthyStr(refs.start_sha)
                  /\ TruthyStr(refs.head_sha)) THEN <<>>
        ELSE IF types.err # "" THEN <<>>
        ELSE IF olds.err # "" THEN <<>>
        ELSE CallsAfter(cs, types.mapping, olds.mapping, refs, Len(cs))

----------------------------------------------------------------------------
(* Two /review requests handled by the server.  handle_review_request      *)
(* awaits agent.review_merge_request, which awaits the pipeline (the merge *)
(* request is fetched, the Reviewer answers) and then calls                *)
(* post_line_comments_direct, a function without await: the passes         *)
(* interleave at the awaits, and a call of post_line_comments_direct, once *)
(* started, runs to its end.  Every call has its own parameters and locals.*)

Passes == {1, 2}

\* what the Host answers for the merge request of a pass
PassDiffInputs ==
    {<<FileDiff("a.py", ScenarioA)>>,
     <<FileDiff("a.py", OtherDiff)>>,
     <<FileDiff("a.py", <<HunkCut>>)>>}

PassRefInputs ==
    {[status |-> "ok", base_sha |-> "b1", start_sha |-> "s1", head_sha |-> "h1"],
     [status |-> "ok", base_sha |-> "b2", start_sha |-> "s2", head_sha |-> "h2"]}

\* what the Reviewer answers in a pass
PassBatches ==
    {<<>>,
     <<Comment("a.py", 4, "x")>>,
     <<Comment("a.py", 5, "x"), Put(Comment("a.py", 1, "x"), "type", "unchanged")>>}

InitTwo ==
    /\ caller = "post"
    /\ diffs = <<>>
    /\ pc = "idle"
    /\ outcome = [f \in Functions |-> "pending"]
    /\ NoWalk
    /\ diff_refs = [base_sha |-> NoneStr, start_sha |-> NoneStr,
                    head_sha |-> NoneStr]
    /\ candidates = <<>>
    /\ comments = <<>>
    /\ idx = 0
    /\ calls = <<>>
    /\ log = <<>>
    /\ fetched = 0
    /\ run = 1
    /\ first = <<>>
    /\ adjusted = <<>>
    /\ turn = 0
    /\ passes \in [Passes -> [stage : {"fetched"}, diffs : PassDiffInputs,
                              comments : PassBatches, refs : PassRefInputs,
                              calls : {<<>>}, written : {<<>>}]]

\* review = await agent.run(review_prompt); the comments are extracted
Reviewed(p) ==
    /\ passes[p].stage = "fetched"
    /\ passes' = [passes EXCEPT ![p].stage = "reviewed"]
    /\ UNCHANGED <<caller, diffs, pc, outcome, walkvars, diff_refs, candidates,
                   comments, idx, calls, log, fetched, run, first, adjusted,
                   turn>>

\* faulty variant: the two indexes outlive the call that built them
StartPostKeepIndexes(p) ==
    /\ pc = "idle" /\ turn = 0
    /\ passes[p].stage = "reviewed"
    /\ turn' = p
    /\ passes' = [passes EXCEPT ![p].stage = "posting"]
    /\ diffs' = passes[p].diffs
    /\ diff_refs' = passes[p].refs
    /\ candidates' = passes[p].comments
    /\ comments' = passes[p].comments
    /\ idx' = 1
    /\ calls' = <<>>
    /\ log' = <<>>
    /\ fetched' = 0
    /\ pc' = "refs"
    /\ outcome' = [f \in Functions |-> IF f = "post" THEN "running" ELSE "pending"]
    /\ fi' = 0
    /\ li' = 0
    /\ old_line' = None
    /\ new_line' = None
    /\ walked' = [w \in {"type", "map", "vis"} |-> <<>>]
    /\ UNCHANGED <<caller, new_line_num, commentable_lines, file_to_lines,
                   line_type_mapping, line_mapping, run, first, adjusted>>

\* post_line_comments_direct(project_id, mr_iid, comments, diffs=diffs) is
\* called: its parameters are those of the pass, its locals are new
StartPost(p) ==
    /\ pc = "idle" /\ turn = 0
    /\ passes[p].stage = "reviewed"
    /\ turn' = p
    /\ passes' = [passes EXCEPT ![p].stage = "posting"]
    /\ diffs' = passes[p].diffs
    /\ diff_refs' = passes[p].refs
    /\ candidates' = passes[p].comments
    /\ comments' = passes[p].comments
    /\ idx' = 1
    /\ calls' = <<>>
    /\ log' = <<>>
    /\ fetched' = 0
    /\ pc' = "refs"
    /\ outcome' = [f \in Functions |-> IF f = "post" THEN "running" ELSE "pending"]
    /\ fi' = 0
    /\ li' = 0
    /\ old_line' = None
    /\ new_line' = None
    /\ line_type_mapping' = EmptyDict
    /\ line_mapping' = EmptyDict
    /\ walked' = [w \in {"type", "map", "vis"} |-> <<>>]
    /\ UNCHANGED <<caller, new_line_num, commentable_lines, file_to_lines,
                   run, first, adjusted>>

\* the call is over (returned or raised); the pass ends
FinishPost ==
    /\ pc = "done" /\ turn # 0
    /\ passes' = [passes EXCEPT ![turn].stage = "done",
                                ![turn].calls = calls,
                                ![turn].written = comments]
    /\ turn' = 0
    /\ pc' = "idle"
    /\ UNCHANGED <<caller, diffs, outcome, walkvars, diff_refs, candidates,
                   comments, idx, calls, log, fetched, run, first, adjusted>>

NextTwo ==
    \/ \E p \in Passes : Reviewed(p)
    \/ \E p \in Passes : StartPost(p)
    \/ NextPost
    \/ FinishPost

SpecTwo == InitTwo /\ [][NextTwo]_vars

\* C20: however the two passes interleave, the indexes a pass works with
\* are those built from its own diffs alone, the calls it has made are the
\* calls it makes when it runs on its own on its diffs, comments and
\* identifiers, and the comments of a pass that is not posting are as its
\* Reviewer gave them.
C20_PassesIndependent ==
    turn \in Passes =>
        LET me == passes[turn]
        IN  /\ pc = "loop" =>
                /\ line_type_mapping = TypeIndexAfter(me.diffs, Len(me.diffs)).mapping
                /\ line_mapping = MapIndexAfter(me.diffs, Len(me.diffs)).mapping
            /\ pc = "done" => calls = PostCalls(me.comments, me.diffs, me.refs)
            /\ \A q \in Passes \ {turn} :
                   /\ passes[q].stage = "done" =>
                          passes[q].calls = PostCalls(passes[q].comments,
                                                      passes[q].diffs,
                                                      passes[q].refs)
                   /\ passes[q].stage # "done" => passes[q].written = <<>>

\* the pass on Scenario A has ended; the other pass, whose diff shows line
\* 5 only, has then posted its comment on line 4 with no kind and no old
\* line, although line 4 was in the indexes of the first
C20_Witness ==
    /\ turn = 2 /\ pc = "done"
    /\ passes[1].stage = "done"
    /\ passes[1].diffs = <<FileDiff("a.py", ScenarioA)>>
    /\ passes[1].comments = <<Comment("a.py", 4, "x")>>
    /\ Len(passes[1].calls) = 1
    /\ passes[1].calls[1].params.old_line = 3
    /\ passes[2].diffs = <<FileDiff("a.py", OtherDiff)>>
    /\ passes[2].comments = <<Comment("a.py", 4, "x")>>
    /\ Len(calls) = 1
    /\ calls[1].params.type = NoneStr
    /\ calls[1].params.old_line = None
    /\ calls[1].params.base_sha = passes[2].refs.base_sha

----------------------------------------------------------------------------
Builders == {"type", "map"}

\* the entry of a line consumed inside a hunk: it is no header and both
\* counters had a number when it was read
InHunk(e) ==
    /\ KindOf(e.text) # "header"
    /\ e.old # None
    /\ e.new # None

\* the step of the counters over one line, as the claim words it
StepOf(t) ==
    IF StartsWith(t, Plus) /\ ~StartsWith(t, Plus3)
    THEN [old |-> 0, new |-> 1]
    ELSE IF StartsWith(t, Minus) /\ ~StartsWith(t, Minus3)
    THEN [old |-> 1, new |-> 0]
    ELSE [old |-> 1, new |-> 1]

\* the index of builder W
IndexOf(W) == IF W = "type" THEN line_type_mapping ELSE line_mapping

\* what builder W holds for the line of entry e once it has consumed it:
\* the kind index takes an added or other line at its new number and a
\* removed line at its old number; the correspondence index takes an added
\* line at its new number with no old line and any other line at its new
\* number with its old number (it keeps nothing for a removed line)
RecordedAt(W, e) ==
    LET step == StepOf(e.text)
        idx_ == IndexOf(W)
    IN  IF step = [old |-> 0, new |-> 1]
        THEN /\ Has(idx_, <<e.path, e.new>>)
             /\ idx_[<<e.path, e.new>>] = IF W = "type" THEN "new" ELSE None
        ELSE IF step = [old |-> 1, new |-> 0]
        THEN W = "type" =>
                 /\ Has(idx_, <<e.path, e.old>>)
                 /\ idx_[<<e.path, e.old>>] = "deleted"
        ELSE /\ Has(idx_, <<e.path, e.new>>)
             /\ IF W = "type"
                THEN idx_[<<e.path, e.new>>] = "unchanged"
                ELSE idx_[<<e.path, e.new>>] = e.old

----------------------------------------------------------------------------
\* the new-line numbers build_line_mapping_from_diff has keys for under the
\* file named path
MappedNewLines(path) ==
    {key[2] : key \in {x \in DOMAIN line_mapping : x[1] = path}}

\* C22: on a merge request of one file on which the walks have returned,
\* the new-line numbers of the keys of the correspondence index are the set
\* extract_commentable_lines_from_diff returns for the file, and the kind
\* builder has read every line at the old and new numbers at which the
\* correspondence builder has read it.
C22_WalksAgree ==
    (/\ caller = "walkers" /\ pc = "done" /\ Len(diffs) = 1
     /\ outcome["type"] = "returned"
     /\ outcome["map"] = "returned"
     /\ outcome["vis"] = "returned") =>
        /\ MappedNewLines(diffs[1].new_path) = file_to_lines[diffs[1].new_path]
        /\ Len(walked["type"]) = Len(walked["map"])
        /\ \A k \in 1..Len(walked["type"]) :
               /\ walked["type"][k].old = walked["map"][k].old
               /\ walked["type"][k].new = walked["map"][k].new

----------------------------------------------------------------------------
\* the fields post_line_comments_direct assigns
Written == {"type", "old_line"}

\* comment now has, outside the written fields, the keys and values of
\* comment before
SameButWritten(now, before) ==
    /\ DOMAIN now \ Written = DOMAIN before \ Written
    /\ \A key \in DOMAIN before \ Written : now[key] = before[key]

\* C23: at every point of a batch, every comment differs from the comment
\* the caller passed in its type and old_line at most (new_path, line,
\* comment, old_path, position_type and the set of other keys are as they
\* were), a comment skipped for a missing required field is as it was, and
\* no step taken while the comments are processed changes the diffs or one
\* of the two indexes.
C23_FrameOfPost ==
    /\ [](caller = "post" =>
            /\ Len(comments) = Len(candidates)
            /\ \A k \in 1..Len(comments) :
                   /\ SameButWritten(comments[k], candidates[k])
                   /\ LacksRequired(candidates[k]) =>
                          comments[k] = candidates[k])
    /\ [][pc = "loop" =>
              /\ diffs' = diffs
              /\ line_type_mapping' = line_type_mapping
              /\ line_mapping' = line_mapping]_vars

\* Scenario A: a comment without new_path was skipped and is as it was; the
\* comment on line 4 was given a kind and an old line and nothing else
C23_Witness ==
    /\ caller = "post" /\ pc = "done"
    /\ diffs = <<FileDiff("a.py", ScenarioA)>>
    /\ candidates = <<[line |-> 2, comment |-> "x"], Comment("a.py", 4, "x")>>
    /\ log = <<"skipped", "posted">>
    /\ comments[1] = candidates[1]
    /\ comments[2] = [new_path |-> "a.py", line |-> 4, comment |-> "x",
                      type |-> "unchanged", old_line |-> 3]

====
